---- MODULE Spec2Model ----
(***************************************************************************)
(* The bookstore inventory of Task_two: Book (book.py) and                 *)
(* BookstoreInventory (inventory.py).                                      *)
(*                                                                         *)
(* Money is counted in mills (thousandths of a currency unit), so that     *)
(* 21.004 is 21004 and a stored price, always a whole number of cents, is  *)
(* a multiple of 10.  The program is single threaded: every method is one  *)
(* atomic step.                                                            *)
(***************************************************************************)
EXTENDS Integers, Sequences, FiniteSets, TLC

VARIABLES
    books,            \* BookstoreInventory.books: title -> Book
    transaction_log,  \* BookstoreInventory.transaction_log
    primary,          \* the file at json_file
    backup,           \* the file at json_file + ".backup"
    last,             \* the call that ran last: its arguments and what it returned
    saves             \* history: books/transaction_log at the calls of save_inventory
                      \* on this instance that got past the rename (kept by SpecSave only)

vars == <<books, transaction_log, primary, backup, last, saves>>

----------------------------------------------------------------------------
(* Bounds of the model *)

MaxLog == 2        \* entries the ledger may hold
MaxBookStock == 4  \* largest stock the Book tried on its own is taken to

----------------------------------------------------------------------------
(* Inputs *)

TitleInputs == {"Dune", " Dune ", "Emma"}
AuthorInputs == {" Austen "}
PriceInputs == {-1000, 21004}          \* -1.00 and 21.004
StockInputs == {-1, 2}
Quantities == {-3, -1, 1}
ReasonInputs == {<<"Manual Update">>}
Answers == {"y", "Y", ""}                \* "": Enter, the default of (y/N)
Limits == {0, 1, 3}

\* Inputs of the Book tried on its own: 0, 0.004, 0.061, 0.07, 1.00, 21.004
BookPriceInputs == {0, 4, 61, 70, 1000, 21004}
BookStockInputs == {-1, 0, 3}
BookQuantities == {-1, 1, 2}

----------------------------------------------------------------------------
(* Python built-ins, as far as the inputs reach *)

\* str.strip()
strip(s) ==
    CASE s = " Dune " -> "Dune"
      [] s = " Austen " -> "Austen"
      [] OTHER -> s

\* str.lower()
lower(s) ==
    CASE s = "Y" -> "y"
      [] OTHER -> s

max(a, b) == IF a >= b THEN a ELSE b

\* The whole numbers of cents c, |c| <= 2200, for which the IEEE-754 double
\* product (c / 100) * 100 comes out above c, so that math.ceil of it is c + 1.
CeilDrift ==
    { 7, 14, 28, 55, 56, 109, 110, 111, 112, 218, 220, 222, 224, 243, 245, 247,
      249, 411, 415, 419, 423, 436, 440, 444, 448, 461, 465, 469, 473, 486, 490,
      494, 498, 511, 805, 813, 821, 822, 830, 838, 846, 847, 855, 863, 871, 872,
      880, 888, 896, 897, 905, 913, 921, 922, 930, 938, 946, 947, 955, 963, 971,
      972, 980, 988, 996, 997, 1005, 1013, 1021, 1022, 1601, 1610, 1617, 1619,
      1626, 1635, 1642, 1644, 1651, 1660, 1667, 1669, 1676, 1685, 1692, 1694,
      1701, 1710, 1717, 1719, 1726, 1735, 1742, 1744, 1751, 1760, 1767, 1769,
      1776, 1785, 1792, 1794, 1801, 1810, 1817, 1819, 1826, 1835, 1842, 1844,
      1851, 1860, 1867, 1869, 1876, 1885, 1892, 1894, 1901, 1910, 1917, 1919,
      1926, 1935, 1942, 1944, 1951, 1960, 1967, 1969, 1976, 1985, 1992, 1994,
      2001, 2010, 2017, 2019, 2026, 2035, 2042, 2044,
      -2040, -2033, -2031, -2024, -2015, -2008, -2006, -1999, -1990, -1983,
      -1981, -1974, -1965, -1958, -1956, -1949, -1940, -1933, -1931, -1924,
      -1915, -1908, -1906, -1899, -1890, -1883, -1881, -1874, -1865, -1858,
      -1856, -1849, -1840, -1833, -1831, -1824, -1815, -1808, -1806, -1799,
      -1790, -1783, -1781, -1774, -1765, -1758, -1756, -1749, -1740, -1733,
      -1731, -1724, -1715, -1708, -1706, -1699, -1690, -1683, -1681, -1674,
      -1665, -1658, -1656, -1649, -1640, -1633, -1631, -1624, -1615, -1608,
      -1606, -1020, -1012, -1004, -1003, -995, -987, -979, -978, -970, -962,
      -954, -953, -945, -937, -929, -928, -920, -912, -904, -903, -895, -887,
      -879, -878, -870, -862, -854, -853, -845, -837, -829, -828, -820, -812,
      -804, -803, -510, -506, -502, -489, -485, -481, -477, -464, -460, -456,
      -452, -439, -435, -431, -427, -414, -410, -406, -402, -255, -253, -251,
      -232, -230, -228, -226, -207, -205, -203, -201, -116, -115, -114, -113,
      -58, -57, -29 }

\* The ceiling taken as the floor of the negation, the outer minus forgotten
ceil_to_cent_unnegated(price) == 10 * ((0 - price) \div 10)

\* math.ceil(price * 100) / 100 on doubles, for |price| <= 22.00 given in mills;
\* the result is in mills too.  A price that is no whole number of cents is at
\* least a mill away from one, far more than the rounding error of the product.
ceil_to_cent(price) ==
    IF price % 10 = 0
    THEN IF (price \div 10) \in CeilDrift THEN price + 10 ELSE price
    ELSE 10 * ((price \div 10) + 1)

----------------------------------------------------------------------------
(* book.py *)

\* Book.__init__
Book(title, author, price, stock) ==
    [title |-> strip(title),
     author |-> strip(author),
     price |-> ceil_to_cent(price),
     stock |-> max(0, stock)]

\* Book.update_stock without its test of new_stock
Book_update_stock_unchecked(book, quantity) ==
    [ok |-> TRUE, book |-> [book EXCEPT !.stock = book.stock + quantity]]

\* Book.update_stock assigning self.stock before it tests new_stock
Book_update_stock_assign_first(book, quantity) ==
    [ok |-> book.stock + quantity >= 0,
     book |-> [book EXCEPT !.stock = book.stock + quantity]]

\* Book.update_stock: whether it returns True, and the book afterwards
Book_update_stock(book, quantity) ==
    LET new_stock == book.stock + quantity
    IN  IF new_stock < 0
        THEN [ok |-> FALSE, book |-> book]
        ELSE [ok |-> TRUE, book |-> [book EXCEPT !.stock = new_stock]]

\* Book.update_price
Book_update_price(book, new_price) ==
    [book EXCEPT !.price = ceil_to_cent(new_price)]

\* The (cents, stock) pairs, cents in {-100, 0, 1, 7, 8, 100, 2101} and
\* 0 <= stock <= 8, for which the IEEE-754 double product
\* (cents / 100) * stock * 100 comes out above cents * stock, so that math.ceil
\* of it is cents * stock + 1.
ValueDrift ==
    { <<1, 7>>, <<7, 1>>, <<7, 2>>, <<7, 3>>, <<7, 4>>, <<7, 6>>, <<7, 7>>,
      <<7, 8>>, <<8, 7>>, <<2101, 5>>, <<2101, 7>> }

\* Book.calculate_value: math.ceil(self.price * self.stock * 100) / 100 on
\* doubles, in mills, for the prices and stocks of ValueDrift
calculate_value(book) ==
    LET cents == book.price \div 10
        exact == cents * book.stock
    IN  10 * (IF <<cents, book.stock>> \in ValueDrift THEN exact + 1 ELSE exact)

\* Book.to_dict
to_dict(book) ==
    [title |-> book.title, author |-> book.author,
     price |-> book.price, stock |-> book.stock]

BookFields == {"title", "author", "price", "stock"}

\* Book.from_dict raises KeyError when a key is missing
from_dict_raises(data) == ~(BookFields \subseteq DOMAIN data)

\* Book.from_dict
from_dict(data) == Book(data.title, data.author, data.price, data.stock)

----------------------------------------------------------------------------
(* Python dicts and the files on disk *)

EmptyDict == [k \in {} |-> k]

\* d[k] = v
dict_set(d, k, v) == [x \in (DOMAIN d) \cup {k} |-> IF x = k THEN v ELSE d[x]]

\* del d[k] left out
dict_del_left_out(d, k) == d

\* del d[k]
dict_del(d, k) == [x \in (DOMAIN d) \ {k} |-> d[x]]

\* d.get(k, default)
dict_get(d, k, default) == IF k \in DOMAIN d THEN d[k] ELSE default

\* A file: absent, or present and not JSON, or present and holding the JSON
\* object data.  A JSON object of books keeps its members in order: a sequence
\* of [key, value].
NoFile == [exists |-> FALSE, parses |-> FALSE, data |-> EmptyDict]
Garbage == [exists |-> TRUE, parses |-> FALSE, data |-> EmptyDict]
JsonFile(data) == [exists |-> TRUE, parses |-> TRUE, data |-> data]

\* Documents that may lie at json_file when the program starts
Entry0 ==
    [timestamp |-> 0, action |-> "ADD_BOOK", title |-> "Dune",
     details |-> [title |-> "Dune", author |-> "Herbert",
                  price |-> 21010, initial_stock |-> 2]]
DuneData == [title |-> "Dune", author |-> "Herbert", price |-> 21010, stock |-> 2]
EmmaNoAuthor == [title |-> "Emma", price |-> 21010, stock |-> 0]
DocGood ==
    [books |-> <<[key |-> "Dune", value |-> DuneData]>>,
     transaction_log |-> <<Entry0>>,
     last_updated |-> 0, total_books |-> 1, total_inventory_value |-> 42020]
DocBadSecond ==
    [books |-> <<[key |-> "Dune", value |-> DuneData],
                 [key |-> "Emma", value |-> EmmaNoAuthor]>>,
     transaction_log |-> <<Entry0>>,
     last_updated |-> 0, total_books |-> 2, total_inventory_value |-> 42020]
InitialFiles == {NoFile, Garbage, JsonFile(DocGood), JsonFile(DocBadSecond)}

----------------------------------------------------------------------------
(* inventory.py *)

\* What `last` records of a call
Call(op, title, qty, ret, err) ==
    [op |-> op, title |-> title, qty |-> qty, ret |-> ret, err |-> err,
     answer |-> "<not asked>", out |-> <<>>, price |-> 0]

\* datetime.now().isoformat(): a reading of the clock, taken to be later than
\* the time of the last entry of the ledger
datetime_now(log) == IF log = <<>> THEN 1 ELSE log[Len(log)].timestamp + 1

\* log_transaction leaving out the removals
log_transaction_skips_removals(log, action, title, details) ==
    IF action = "REMOVE_BOOK"
    THEN log
    ELSE Append(log, [timestamp |-> datetime_now(log), action |-> action,
                      title |-> title, details |-> details])

\* log_transaction putting the new entry first
log_transaction_insert_first(log, action, title, details) ==
    <<[timestamp |-> datetime_now(log), action |-> action,
       title |-> title, details |-> details]>> \o log

\* BookstoreInventory.log_transaction: the ledger after the append
log_transaction(log, action, title, details) ==
    Append(log, [timestamp |-> datetime_now(log), action |-> action,
                 title |-> title, details |-> details])

\* BookstoreInventory.get_book_by_title returns a Book (and not None)
has_book(bs, title) == title \in DOMAIN bs

\* The index of the first book record Book.from_dict raises on (Len + 1: none)
first_raising(items) ==
    LET bad == {i \in 1..Len(items) : from_dict_raises(items[i].value)}
    IN  IF bad = {} THEN Len(items) + 1
        ELSE CHOOSE i \in bad : \A j \in bad : i <= j

\* self.books after the loop of load_inventory has assigned items[1..n]
RECURSIVE assign_books(_, _, _)
assign_books(bs, items, n) ==
    IF n = 0 THEN bs
    ELSE dict_set(assign_books(bs, items, n - 1),
                  items[n].key, from_dict(items[n].value))

\* BookstoreInventory.load_inventory on an instance holding bs and log:
\* what it returns and what the instance holds afterwards.  read_fault: the
\* open or the read raises.
load_inventory(bs, log, file, read_fault) ==
    IF ~file.exists
    THEN [ret |-> TRUE, err |-> "", books |-> bs, transaction_log |-> log]
    ELSE IF read_fault
    THEN [ret |-> FALSE, err |-> "OSError", books |-> bs, transaction_log |-> log]
    ELSE IF ~file.parses
    THEN [ret |-> FALSE, err |-> "JSONDecodeError", books |-> bs,
          transaction_log |-> log]
    ELSE LET items == dict_get(file.data, "books", <<>>)
             bad == first_raising(items)
         IN  IF bad <= Len(items)
             THEN [ret |-> FALSE, err |-> "KeyError",
                   books |-> assign_books(bs, items, bad - 1),
                   transaction_log |-> log]
             ELSE [ret |-> TRUE, err |-> "",
                   books |-> assign_books(bs, items, Len(items)),
                   transaction_log |-> dict_get(file.data, "transaction_log", <<>>)]

\* BookstoreInventory.__init__: a fresh instance on the same json_file
BookstoreInventory(read_fault) ==
    LET r == load_inventory(EmptyDict, <<>>, primary, read_fault)
    IN  /\ read_fault => primary.exists
        /\ books' = r.books
        /\ transaction_log' = r.transaction_log
        /\ last' = Call("load_inventory", "", 0, r.ret, r.err)
        /\ saves' = <<>>
        /\ UNCHANGED <<primary, backup>>

\* add_book(...) as `last` records it
AddCall(title, price, stock, ret, err) ==
    [Call("add_book", title, stock, ret, err) EXCEPT !.price = price]

\* add_book replacing the book it finds under the title
add_book_overwrites(title, author, price, stock) ==
    LET book == Book(title, author, price, stock)
    IN  IF book.title \in DOMAIN books
        THEN /\ books' = dict_set(books, book.title, book)
             /\ last' = AddCall(title, price, stock, book.title, "DuplicateKey")
             /\ UNCHANGED <<transaction_log, primary, backup, saves>>
        ELSE /\ Len(transaction_log) < MaxLog
             /\ books' = dict_set(books, book.title, book)
             /\ transaction_log' =
                    log_transaction(transaction_log, "ADD_BOOK", book.title,
                        [title |-> book.title, author |-> book.author,
                         price |-> book.price, initial_stock |-> stock])
             /\ last' = AddCall(title, price, stock, book.title, "")
             /\ UNCHANGED <<primary, backup, saves>>

\* BookstoreInventory.add_book
add_book(title, author, price, stock) ==
    LET book == Book(title, author, price, stock)
    IN  IF book.title \in DOMAIN books
        THEN /\ last' = AddCall(title, price, stock, book.title, "DuplicateKey")
             /\ UNCHANGED <<books, transaction_log, primary, backup, saves>>
        ELSE /\ Len(transaction_log) < MaxLog
             /\ books' = dict_set(books, book.title, book)
             /\ transaction_log' =
                    log_transaction(transaction_log, "ADD_BOOK", book.title,
                        [title |-> book.title, author |-> book.author,
                         price |-> book.price, initial_stock |-> stock])
             /\ last' = AddCall(title, price, stock, book.title, "")
             /\ UNCHANGED <<primary, backup, saves>>

\* BookstoreInventory.update_stock, called as op (update_stock itself,
\* sell_book or restock_book) with the argument qty
update_stock(op, qty, title, quantity_change, reason) ==
    IF ~has_book(books, title)
    THEN /\ last' = Call(op, title, qty, FALSE, "NotFound")
         /\ UNCHANGED <<books, transaction_log, primary, backup, saves>>
    ELSE LET book == books[title]
             old_stock == book.stock
             r == Book_update_stock(book, quantity_change)
         IN  IF r.ok
             THEN /\ Len(transaction_log) < MaxLog
                  /\ books' = [books EXCEPT ![title] = r.book]
                  /\ transaction_log' =
                         log_transaction(transaction_log, "STOCK_UPDATE", title,
                             [old_stock |-> old_stock, new_stock |-> r.book.stock,
                              change |-> quantity_change, reason |-> reason])
                  /\ last' = Call(op, title, qty, TRUE, "")
                  /\ UNCHANGED <<primary, backup, saves>>
             ELSE /\ books' = [books EXCEPT ![title] = r.book]
                  /\ last' = Call(op, title, qty, FALSE, "InsufficientStock")
                  /\ UNCHANGED <<transaction_log, primary, backup, saves>>

\* sell_book handing the quantity to update_stock without negating it
sell_book_adds(title, quantity) ==
    update_stock("sell_book", quantity, title, quantity,
                 <<"Sale of", quantity, "units">>)

\* BookstoreInventory.sell_book
sell_book(title, quantity) ==
    update_stock("sell_book", quantity, title, 0 - quantity,
                 <<"Sale of", quantity, "units">>)

\* BookstoreInventory.restock_book
restock_book(title, quantity) ==
    update_stock("restock_book", quantity, title, quantity,
                 <<"Restock of", quantity, "units">>)

\* BookstoreInventory.update_price
update_price(title, new_price) ==
    IF ~has_book(books, title)
    THEN /\ last' = [Call("update_price", title, 0, FALSE, "NotFound")
                        EXCEPT !.price = new_price]
         /\ UNCHANGED <<books, transaction_log, primary, backup, saves>>
    ELSE LET book == books[title]
             old_price == book.price
             updated == Book_update_price(book, new_price)
         IN  /\ Len(transaction_log) < MaxLog
             /\ books' = [books EXCEPT ![title] = updated]
             /\ transaction_log' =
                    log_transaction(transaction_log, "PRICE_UPDATE", title,
                        [old_price |-> old_price, new_price |-> updated.price])
             /\ last' = [Call("update_price", title, 0, TRUE, "")
                            EXCEPT !.price = new_price]
             /\ UNCHANGED <<primary, backup, saves>>

\* remove_book taking only an "n" for a refusal
declined_only_on_n(book, answer) == book.stock > 0 /\ lower(answer) = "n"

\* remove_book asks for a confirmation, and the answer given does not confirm
declined(book, answer) == book.stock > 0 /\ lower(answer) # "y"

\* BookstoreInventory.remove_book; answer is what input() returns when asked
remove_book(title, answer) ==
    IF ~has_book(books, title)
    THEN /\ last' = Call("remove_book", title, 0, FALSE, "NotFound")
         /\ UNCHANGED <<books, transaction_log, primary, backup, saves>>
    ELSE LET book == books[title]
             asked == IF book.stock > 0 THEN answer ELSE "<not asked>"
         IN  IF declined(book, answer)
             THEN /\ last' = [Call("remove_book", title, 0, FALSE, "Cancelled")
                                 EXCEPT !.answer = asked]
                  /\ UNCHANGED <<books, transaction_log, primary, backup, saves>>
             ELSE /\ Len(transaction_log) < MaxLog
                  /\ transaction_log' =
                         log_transaction(transaction_log, "REMOVE_BOOK", title,
                             [title |-> book.title, author |-> book.author,
                              final_stock |-> book.stock])
                  /\ books' = dict_del(books, title)
                  /\ last' = [Call("remove_book", title, 0, TRUE, "")
                                 EXCEPT !.answer = asked]
                  /\ UNCHANGED <<primary, backup, saves>>

\* reversed(transaction_log[-limit:]): the entries view_transaction_log prints
RECURSIVE reversed(_)
reversed(s) == IF s = <<>> THEN <<>> ELSE Append(reversed(Tail(s)), Head(s))

recent_transactions(log, limit) ==
    LET n == Len(log)
        start == IF limit = 0 THEN 1 ELSE max(1, n - limit + 1)
    IN  reversed(SubSeq(log, start, n))

\* BookstoreInventory.view_transaction_log
view_transaction_log(limit) ==
    /\ last' = [Call("view_transaction_log", "", limit, TRUE, "")
                   EXCEPT !.out = IF transaction_log = <<>> THEN <<>>
                                  ELSE recent_transactions(transaction_log, limit)]
    /\ UNCHANGED <<books, transaction_log, primary, backup, saves>>

\* The members 'books' and 'transaction_log' of the dict save_inventory builds
\* hold bs and log
holds_document(file, bs, log) ==
    /\ file.exists /\ file.parses
    /\ "books" \in DOMAIN file.data /\ "transaction_log" \in DOMAIN file.data
    /\ {file.data.books[i] : i \in 1..Len(file.data.books)}
         = {[key |-> t, value |-> to_dict(bs[t])] : t \in DOMAIN bs}
    /\ Len(file.data.books) = Cardinality(DOMAIN bs)
    /\ file.data.transaction_log = log

\* What BookstoreInventory.save_inventory does to the files.  The rename
\* happens when the file exists (rename_fault: os.rename raises).  Building the
\* dict then calls self.calculate_total_inventory_value(), which
\* BookstoreInventory does not define: the AttributeError is caught and the
\* method returns False before it opens the file.  track: whether the call is
\* entered in saves.
save_inventory_files(rename_fault, track) ==
    /\ rename_fault => primary.exists
    /\ IF primary.exists /\ rename_fault
       THEN /\ last' = Call("save_inventory", "", 0, FALSE, "OSError")
            /\ UNCHANGED <<primary, backup, saves>>
       ELSE /\ backup' = IF primary.exists THEN primary ELSE backup
            /\ primary' = NoFile
            /\ last' = Call("save_inventory", "", 0, FALSE, "AttributeError")
            /\ saves' = IF track
                        THEN Append(IF Len(saves) = 2 THEN Tail(saves) ELSE saves,
                                    [books |-> books,
                                     transaction_log |-> transaction_log])
                        ELSE saves

\* save_inventory emptying the ledger it has handed to the file
save_inventory_flushes_ledger(rename_fault, track) ==
    /\ save_inventory_files(rename_fault, track)
    /\ books' = books
    /\ transaction_log' = <<>>

\* BookstoreInventory.save_inventory
save_inventory(rename_fault, track) ==
    /\ save_inventory_files(rename_fault, track)
    /\ UNCHANGED <<books, transaction_log>>

----------------------------------------------------------------------------
(* The program *)

Init ==
    /\ books = EmptyDict
    /\ transaction_log = <<>>
    /\ primary \in InitialFiles
    /\ backup = NoFile
    /\ last = Call("none", "", 0, TRUE, "")
    /\ saves = <<>>

Started == last.op # "none"

Construct == \E f \in BOOLEAN : BookstoreInventory(f)
AddBook ==
    /\ Started
    /\ \E t \in TitleInputs, a \in AuthorInputs, p \in PriceInputs, s \in StockInputs :
          add_book(t, a, p, s)
UpdateStock ==
    /\ Started
    /\ \E t \in TitleInputs, q \in Quantities, r \in ReasonInputs :
          update_stock("update_stock", q, t, q, r)
SellBook == Started /\ \E t \in TitleInputs, q \in Quantities : sell_book(t, q)
RestockBook == Started /\ \E t \in TitleInputs, q \in Quantities : restock_book(t, q)
UpdatePrice == Started /\ \E t \in TitleInputs, p \in PriceInputs : update_price(t, p)
RemoveBook == Started /\ \E t \in TitleInputs, a \in Answers : remove_book(t, a)
ViewTransactionLog == Started /\ \E l \in Limits : view_transaction_log(l)
SaveInventory == Started /\ \E f \in BOOLEAN : save_inventory(f, FALSE)
SaveInventoryTracked == Started /\ \E f \in BOOLEAN : save_inventory(f, TRUE)

Mutations ==
    \/ AddBook
    \/ UpdateStock
    \/ SellBook
    \/ RestockBook
    \/ UpdatePrice
    \/ RemoveBook

Next ==
    \/ Construct
    \/ AddBook
    \/ UpdateStock
    \/ SellBook
    \/ RestockBook
    \/ UpdatePrice
    \/ RemoveBook
    \/ ViewTransactionLog
    \/ SaveInventory

Spec == Init /\ [][Next]_vars

\* The same program, with the history of its saves kept
NextSave ==
    \/ Construct
    \/ AddBook
    \/ UpdateStock
    \/ SellBook
    \/ RestockBook
    \/ UpdatePrice
    \/ RemoveBook
    \/ ViewTransactionLog
    \/ SaveInventoryTracked

SpecSave == Init /\ [][NextSave]_vars

\* The program started where no file lies at json_file: an empty repository
InitEmpty ==
    /\ books = EmptyDict
    /\ transaction_log = <<>>
    /\ primary = NoFile
    /\ backup = NoFile
    /\ last = Call("none", "", 0, TRUE, "")
    /\ saves = <<>>

SpecEmpty == InitEmpty /\ [][Next]_vars

----------------------------------------------------------------------------
(* A Book tried on its own: created, updated and valued, with no repository *)

InitBook ==
    /\ books = EmptyDict
    /\ transaction_log = <<>>
    /\ primary = NoFile
    /\ backup = NoFile
    /\ last = Call("none", "", 0, TRUE, "")
    /\ saves = <<>>

\* book = Book("Dune", "Herbert", p, s)
NewBook ==
    /\ \E p \in BookPriceInputs, s \in BookStockInputs :
          /\ books' = dict_set(EmptyDict, "Dune", Book("Dune", "Herbert", p, s))
          /\ last' = [Call("Book", "Dune", s, TRUE, "") EXCEPT !.price = p]
    /\ UNCHANGED <<transaction_log, primary, backup, saves>>

\* book.update_stock(q)
BookUpdateStock ==
    /\ has_book(books, "Dune")
    /\ \E q \in BookQuantities :
          LET r == Book_update_stock(books["Dune"], q)
          IN  /\ r.book.stock <= MaxBookStock
              /\ books' = [books EXCEPT !["Dune"] = r.book]
              /\ last' = Call("Book.update_stock", "Dune", q, r.ok, "")
    /\ UNCHANGED <<transaction_log, primary, backup, saves>>

\* book.update_price(p)
BookUpdatePrice ==
    /\ has_book(books, "Dune")
    /\ \E p \in BookPriceInputs :
          /\ books' = [books EXCEPT !["Dune"] = Book_update_price(books["Dune"], p)]
          /\ last' = [Call("Book.update_price", "Dune", 0, TRUE, "")
                         EXCEPT !.price = p]
    /\ UNCHANGED <<transaction_log, primary, backup, saves>>

\* book.calculate_value()
BookCalculateValue ==
    /\ has_book(books, "Dune")
    /\ last' = Call("Book.calculate_value", "Dune", 0,
                    calculate_value(books["Dune"]), "")
    /\ UNCHANGED <<books, transaction_log, primary, backup, saves>>

NextBook ==
    \/ NewBook
    \/ BookUpdateStock
    \/ BookUpdatePrice
    \/ BookCalculateValue

SpecBook == InitBook /\ [][NextBook]_vars

----------------------------------------------------------------------------
(* Properties *)

MutatingOps ==
    {"add_book", "update_stock", "sell_book", "restock_book", "update_price",
     "remove_book"}
StockOps == {"update_stock", "sell_book", "restock_book"}
RepositoryOps == MutatingOps \cup {"view_transaction_log", "save_inventory"}

\* The quantity_change a call of a stock operation passes to update_stock
change_of(call) == IF call.op = "sell_book" THEN 0 - call.qty ELSE call.qty

\* s is a prefix of t
IsPrefix(s, t) == Len(s) <= Len(t) /\ SubSeq(t, 1, Len(s)) = s

\* books and transaction_log are left as they were
MemoryUnchanged == books' = books /\ transaction_log' = transaction_log

\* C1: in every state reached by add_book, update_stock, sell_book,
\* restock_book, update_price and remove_book with any integer stock and
\* quantity arguments, negative ones included, every book held in books has
\* stock >= 0.
C1_StockNeverNegative == \A t \in DOMAIN books : books[t].stock >= 0

\* C1's case: a negative stock was passed to add_book and the book is held
\* with stock 0.
C1_Witness ==
    /\ last.op = "add_book" /\ last.err = "" /\ last.qty < 0
    /\ books[last.ret].stock = 0

\* C2: a failing call returns False and leaves books and transaction_log as
\* they were: update_stock, update_price and remove_book on a title that is no
\* key of books, and a stock operation on a book with stock s and a change d
\* with s + d < 0.
C2_FailureLeavesState ==
    [][/\ (/\ last'.op \in (MutatingOps \ {"add_book"})
           /\ ~has_book(books, last'.title))
          => (last'.ret = FALSE /\ MemoryUnchanged)
       /\ (/\ last'.op \in StockOps
           /\ has_book(books, last'.title)
           /\ books[last'.title].stock + change_of(last') < 0)
          => (last'.ret = FALSE /\ MemoryUnchanged)
       /\ (/\ last'.op \in (MutatingOps \ {"add_book"})
           /\ last'.ret = FALSE)
          => MemoryUnchanged]_vars

\* C2's case: update_stock was refused for insufficient stock on a book that
\* is held with stock > 0.
C2_Witness ==
    /\ last.op = "update_stock" /\ last.err = "InsufficientStock"
    /\ last.ret = FALSE /\ has_book(books, last.title)
    /\ books[last.title].stock > 0

\* C3: every successful mutating call (add_book of a new title; update_stock,
\* sell_book, restock_book, update_price, remove_book returning True) makes
\* transaction_log longer by exactly one entry, and add_book of a title already
\* present by none.
C3_OneEntryPerMutation ==
    [][/\ (last'.op = "add_book" /\ strip(last'.title) \notin DOMAIN books)
          => Len(transaction_log') = Len(transaction_log) + 1
       /\ (last'.op = "add_book" /\ strip(last'.title) \in DOMAIN books)
          => Len(transaction_log') = Len(transaction_log)
       /\ (last'.op \in (MutatingOps \ {"add_book"}) /\ last'.ret = TRUE)
          => Len(transaction_log') = Len(transaction_log) + 1]_vars

\* C3's case: a sale succeeded and was entered behind the entry of the book's
\* addition.
C3_Witness ==
    /\ last.op = "sell_book" /\ last.ret = TRUE
    /\ Len(transaction_log) = 2
    /\ transaction_log[1].action = "ADD_BOOK"
    /\ transaction_log[2].action = "STOCK_UPDATE"

\* C4: the ledger is append-only: over any call of add_book, update_stock,
\* sell_book, restock_book, update_price, remove_book, view_transaction_log or
\* save_inventory, the transaction_log before is a prefix of the one after.
C4_LedgerAppendOnly ==
    [][last'.op \in RepositoryOps
          => IsPrefix(transaction_log, transaction_log')]_vars

\* C4's case: a second entry was appended behind a first.
C4_Witness ==
    /\ Len(transaction_log) = 2
    /\ last.op \in MutatingOps
    /\ transaction_log[1].timestamp < transaction_log[2].timestamp

\* The call before this step ran without an I/O fault
NoIOFault(call) == call.err # "OSError"

\* C5: save_inventory followed by load_inventory into a fresh
\* BookstoreInventory on the same path, with no I/O fault, gives a repository
\* with the same books and the same transaction_log as the one saved.
C5_SaveLoadRoundTrip ==
    [][(/\ last.op = "save_inventory" /\ NoIOFault(last)
        /\ last'.op = "load_inventory" /\ NoIOFault(last'))
          => (books' = books /\ transaction_log' = transaction_log)]_vars

\* C6: after two calls of save_inventory on a repository, with any mutations
\* between them and no I/O fault, the file at json_file + ".backup" holds the
\* document of the state as of the first save and the file at json_file the
\* document of the state as of the second.
C6_BackupIsFirstSave ==
    (last.op = "save_inventory" /\ NoIOFault(last) /\ Len(saves) = 2)
        => /\ holds_document(backup, saves[1].books, saves[1].transaction_log)
           /\ holds_document(primary, saves[2].books, saves[2].transaction_log)

\* The document in file is malformed: it does not parse, or one of its book
\* records lacks a field
malformed(file) ==
    /\ file.exists
    /\ \/ ~file.parses
       \/ LET items == dict_get(file.data, "books", <<>>)
          IN  \E i \in 1..Len(items) : from_dict_raises(items[i].value)

\* C7: load_inventory on a malformed document propagates no error and leaves
\* the repository empty: books is empty and transaction_log is empty.
C7_MalformedLoadsEmpty ==
    (last.op = "load_inventory" /\ NoIOFault(last) /\ malformed(primary))
        => (last.ret = FALSE /\ books = EmptyDict /\ transaction_log = <<>>)

\* C8: save_inventory never changes the state in memory: whatever it returns,
\* also when it fails after the file was renamed to .backup, books and
\* transaction_log are the same before and after the call.
C8_SaveLeavesMemory ==
    [][last'.op = "save_inventory" => MemoryUnchanged]_vars

\* C8's case: save_inventory failed after it had renamed the file, on a
\* repository that holds a book and a ledger.
C8_Witness ==
    /\ last.op = "save_inventory" /\ last.ret = FALSE
    /\ last.err = "AttributeError"
    /\ backup.exists /\ ~primary.exists
    /\ DOMAIN books # {} /\ transaction_log # <<>>

\* C9: remove_book on a book with stock > 0 whose confirmation is declined
\* (any answer but "y" or "Y") returns False, leaves the book in books as it
\* was and appends no entry; on a book with stock = 0 it asks for no
\* confirmation and removes the book.
C9_DeclinedRemovalKeepsBook ==
    [][/\ (/\ last'.op = "remove_book"
           /\ has_book(books, last'.title)
           /\ books[last'.title].stock > 0
           /\ last'.answer \notin {"y", "Y"})
          => (last'.ret = FALSE /\ MemoryUnchanged)
       /\ (/\ last'.op = "remove_book"
           /\ has_book(books, last'.title)
           /\ books[last'.title].stock = 0)
          => /\ last'.answer = "<not asked>"
             /\ last'.ret = TRUE
             /\ ~has_book(books', last'.title)]_vars

\* C9's case: the removal of a book in stock was declined with Enter.
C9_Witness ==
    /\ last.op = "remove_book" /\ last.err = "Cancelled" /\ last.answer = ""
    /\ has_book(books, last.title) /\ books[last.title].stock > 0

\* C10: a removal that proceeds (stock = 0, or stock > 0 and confirmed) appends
\* one REMOVE_BOOK entry whose details are the title, author and final_stock of
\* the book as it was when remove_book was called (the entry is made from the
\* book before the book is deleted), and afterwards the title is no key of
\* books.
C10_RemovalLogsThenDeletes ==
    [][(/\ last'.op = "remove_book"
        /\ has_book(books, last'.title)
        /\ (books[last'.title].stock = 0 \/ last'.answer \in {"y", "Y"}))
          => LET book == books[last'.title]
                 n == Len(transaction_log)
             IN  /\ last'.ret = TRUE
                 /\ Len(transaction_log') = n + 1
                 /\ IsPrefix(transaction_log, transaction_log')
                 /\ transaction_log'[n + 1].action = "REMOVE_BOOK"
                 /\ transaction_log'[n + 1].title = last'.title
                 /\ transaction_log'[n + 1].details
                        = [title |-> book.title, author |-> book.author,
                           final_stock |-> book.stock]
                 /\ ~has_book(books', last'.title)
                 /\ \A t \in DOMAIN books \ {last'.title} :
                        has_book(books', t) /\ books'[t] = books[t]]_vars

\* C10's case: a book in stock was removed after the answer "Y".
C10_Witness ==
    /\ last.op = "remove_book" /\ last.ret = TRUE /\ last.answer = "Y"
    /\ ~has_book(books, last.title)
    /\ transaction_log[Len(transaction_log)].details.final_stock > 0

\* C11: add_book with a title whose trimmed form is already a key of books
\* returns that key, raises nothing, and leaves the book held under it
\* (author, price, stock) and the whole transaction_log as they were, whatever
\* author, price and stock were passed.
C11_DuplicateAddChangesNothing ==
    [][(last'.op = "add_book" /\ strip(last'.title) \in DOMAIN books)
          => /\ last'.ret = strip(last'.title)
             /\ books' = books
             /\ transaction_log' = transaction_log]_vars

\* C11's case: " Dune " was added, with another author, price and stock, to a
\* repository that holds "Dune" by Herbert.
C11_Witness ==
    /\ last.op = "add_book" /\ last.err = "DuplicateKey"
    /\ last.title = " Dune " /\ last.ret = "Dune"
    /\ last.price < 0 /\ last.qty < 0
    /\ books["Dune"].author = "Herbert"

\* Every book held has price >= 0
AllPricesNonNegative == \A t \in DOMAIN books : books[t].price >= 0

\* C12 as claimed: in every state reached by add_book and update_price calls
\* with any price the repository accepts, every book in books has price >= 0.
C12_PriceNeverNegative == AllPricesNonNegative

\* C12 as amended: add_book and update_price called with a price >= 0 keep
\* every price >= 0 (the repository accepts a negative price and stores it).
C12_NonNegativePricePreserved ==
    [][(/\ AllPricesNonNegative
        /\ last'.op \in {"add_book", "update_price"}
        /\ last'.price >= 0)
          => AllPricesNonNegative']_vars

\* C12's case: update_price set a price >= 0 (21.004, stored as 21.01) on a
\* book.
C12_Witness ==
    /\ last.op = "update_price" /\ last.ret = TRUE /\ last.price >= 0
    /\ books[last.title].price = 21010
    /\ AllPricesNonNegative

\* The smallest whole number of cents >= price, in mills
smallest_cent_at_least(price) == 10 * (0 - ((0 - price) \div 10))

\* C13: creating a book stores as price the smallest whole number of cents >=
\* the given price and as stock max(0, given stock); a price of 21.004 with
\* stock 3 is stored as 21.01 and 3, and the value is then 63.03.
C13_CreateCeilsPriceClampsStock ==
    last.op = "Book"
        => /\ books["Dune"].price = smallest_cent_at_least(last.price)
           /\ books["Dune"].stock = (IF last.qty < 0 THEN 0 ELSE last.qty)
           /\ (last.price = 21004 /\ last.qty = 3)
                 => /\ books["Dune"].price = 21010
                    /\ books["Dune"].stock = 3
                    /\ calculate_value(books["Dune"]) = 63030

\* C14: for a book with price >= 0 and stock >= 0, calculate_value is price x
\* stock rounded up to whole cents (a price is a whole number of cents, so
\* that is price x stock), and the value does not decrease when update_stock
\* raises the stock or update_price raises the price.
C14_ValueExactAndMonotone ==
    [][LET before == books["Dune"]
           after == books'["Dune"]
       IN  /\ (/\ last'.op = "Book.calculate_value"
               /\ after.price >= 0 /\ after.stock >= 0)
              => last'.ret = after.price * after.stock
           /\ (/\ last'.op = "Book.update_stock" /\ last'.ret = TRUE
               /\ before.price >= 0 /\ after.stock > before.stock)
              => calculate_value(after) >= calculate_value(before)
           /\ (/\ last'.op = "Book.update_price"
               /\ before.price >= 0 /\ after.price > before.price)
              => calculate_value(after) >= calculate_value(before)]_vars

\* The sum over the books of bs with titles in ts of each book's own
\* calculate_value
RECURSIVE sum_of_values(_, _)
sum_of_values(bs, ts) ==
    IF ts = {} THEN 0
    ELSE LET t == CHOOSE x \in ts : TRUE
         IN  calculate_value(bs[t]) + sum_of_values(bs, ts \ {t})

\* C15: the repository provides total_inventory_value, the sum over all books
\* of each book's own calculate_value, and that is the value save_inventory
\* writes as total_inventory_value: after a save with no I/O fault the file at
\* json_file holds a document whose total_inventory_value is that sum.
C15_SaveWritesSumOfValues ==
    (last.op = "save_inventory" /\ NoIOFault(last))
        => /\ last.ret = TRUE
           /\ primary.exists /\ primary.parses
           /\ "total_inventory_value" \in DOMAIN primary.data
           /\ primary.data.total_inventory_value
                = sum_of_values(books, DOMAIN books)

\* The last min(limit, Len(log)) entries of log, most recent first
last_entries_newest_first(log, limit) ==
    LET n == Len(log)
        k == IF limit < n THEN limit ELSE n
    IN  [i \in 1..k |-> log[n - i + 1]]

\* C16: for every ledger and every limit >= 0, view_transaction_log presents
\* exactly the last min(limit, length of the ledger) entries of
\* transaction_log, most recent first, and leaves transaction_log unchanged;
\* limit = 0 presents no entries.
C16_ViewPresentsLastEntries ==
    [][(last'.op = "view_transaction_log" /\ last'.qty >= 0)
          => /\ last'.out = last_entries_newest_first(transaction_log, last'.qty)
             /\ transaction_log' = transaction_log
             /\ (last'.qty = 0 => last'.out = <<>>)]_vars

\* Every STOCK_UPDATE entry of the ledger adds up and is not negative
StockEntriesConsistent ==
    \A i \in 1..Len(transaction_log) :
        LET e == transaction_log[i]
        IN  e.action = "STOCK_UPDATE"
                => /\ e.details.new_stock = e.details.old_stock + e.details.change
                   /\ e.details.new_stock >= 0

\* C17: every STOCK_UPDATE entry in transaction_log satisfies new_stock =
\* old_stock + change and new_stock >= 0, where old_stock is the book's stock
\* immediately before the call and new_stock its stock immediately after;
\* sell_book(title, q) records change = -q, restock_book(title, q) and
\* update_stock(title, q) record change = +q.
C17_StockEntryMatchesCall ==
    /\ []StockEntriesConsistent
    /\ [][(last'.op \in StockOps /\ last'.ret = TRUE)
             => LET e == transaction_log'[Len(transaction_log')]
                    t == last'.title
                IN  /\ transaction_log' = Append(transaction_log, e)
                    /\ e.action = "STOCK_UPDATE" /\ e.title = t
                    /\ e.details.old_stock = books[t].stock
                    /\ e.details.new_stock = books'[t].stock
                    /\ e.details.change = change_of(last')
                    /\ e.details.new_stock
                         = e.details.old_stock + e.details.change
                    /\ e.details.new_stock >= 0]_vars

\* C17's case: sell_book(title, 1) on a book with stock 2 succeeded and its
\* entry records old_stock 2, change -1 and new_stock 1.
C17_Witness ==
    /\ last.op = "sell_book" /\ last.ret = TRUE /\ last.qty = 1
    /\ transaction_log # <<>>
    /\ LET e == transaction_log[Len(transaction_log)]
       IN  /\ e.action = "STOCK_UPDATE"
           /\ e.details.old_stock = 2 /\ e.details.change = -1
           /\ e.details.new_stock = 1
           /\ books[last.title].stock = 1

\* The indices of the ADD_BOOK entries of log for title t
add_entries(log, t) ==
    {i \in 1..Len(log) : log[i].action = "ADD_BOOK" /\ log[i].title = t}

\* The sum of the change fields of the STOCK_UPDATE entries of log for title t
\* behind index i
RECURSIVE sum_of_changes(_, _, _)
sum_of_changes(log, t, i) ==
    IF i >= Len(log) THEN 0
    ELSE LET e == log[i + 1]
         IN  (IF e.action = "STOCK_UPDATE" /\ e.title = t
              THEN e.details.change ELSE 0)
             + sum_of_changes(log, t, i + 1)

\* C18: starting from an empty repository, the stock of every book in books
\* equals the initial_stock of that title's most recent ADD_BOOK entry plus
\* the sum of the change fields of the STOCK_UPDATE entries for that title
\* appended after it.
C18_LedgerReconstructsStock ==
    \A t \in DOMAIN books :
        LET adds == add_entries(transaction_log, t)
        IN  /\ adds # {}
            /\ LET m == CHOOSE i \in adds : \A j \in adds : j <= i
               IN  books[t].stock
                     = transaction_log[m].details.initial_stock
                         + sum_of_changes(transaction_log, t, m)

====
